---- MODULE Spec2Model ----
(***************************************************************************)
(* Model of src/platform/linux/intr.c: the interrupt emulation of the      *)
(* protocol stack.  Interrupt numbers are signal numbers; one dispatch     *)
(* thread (intr_thread) takes them with sigwait() and calls the handlers.  *)
(*                                                                         *)
(* Threads: the initializing thread ("main"), the dispatch thread ("intr") *)
(* and an external thread ("ext") that stands for every other caller.      *)
(* Signals follow the Linux rules the code relies on: a signal sent with   *)
(* pthread_kill to a thread that blocks it stays pending on that thread, a *)
(* signal the thread does not block takes its default action (terminating  *)
(* the process, for every signal number used here), standard signals       *)
(* coalesce and real-time signals queue.  Which of several pending signals *)
(* sigwait() returns is left open.                                         *)
(*                                                                         *)
(* Entries are registered by the main thread before intr_run, as the NOTE  *)
(* at line 22 asks.  intr_run and intr_shutdown are called as the spec     *)
(* describes: intr_run once, and one intr_shutdown call at a time.  The    *)
(* error return of sigwait() is left out: the set it is given holds valid  *)
(* signal numbers only.                                                    *)
(***************************************************************************)
EXTENDS Integers, Sequences, FiniteSets, TLC

\* ---------------------------------------------------------------- constants
SIGHUP == 1
SIGUSR1 == 10
SIGALRM == 14
SIGRTMIN == 34
INTR_IRQ_SHARED == 1

\* ------------------------------------------------------------------- bounds
MaxEntries == 2
MaxPending == 2

\* ------------------------------------------------------------------ domains
Reserved == {SIGHUP, SIGUSR1, SIGALRM}
\* the irqs of drivers: one standard signal number (SIGUSR2) and one
\* real-time signal number (SIGRTMIN + 1)
DriverStd == 12
DriverRt == 35
DriverIrqs == {DriverStd, DriverRt}
IRQs == Reserved \cup DriverIrqs
Flags == {0, INTR_IRQ_SHARED}
\* the (irq, flags) arguments intr_request_irq is called with: a driver
\* identifier with either flag, a reserved identifier without SHARED
Requests == (DriverIrqs \X Flags) \cup (Reserved \X {0})

Main == "main"
Intr == "intr"
Ext == "ext"
Threads == {Main, Intr, Ext}
NoThread == "none"

VARIABLES
    irqs,        \* static struct irq_entry *irqs: the list, head first
    sigmask,     \* static sigset_t sigmask
    tid,         \* static pthread_t tid
    barrier,     \* static pthread_barrier_t barrier: the threads waiting in it
    blocked,     \* signal mask of the main and the dispatch thread
    pending,     \* signals pending on the main and the dispatch thread
    procPending, \* signals pending on the process (the timer's SIGALRM)
    timer,       \* "unarmed", "armed" or "failed": intr_timer_setup
    alive,       \* FALSE once a signal's default action has ended the process
    mpc,         \* position of the initializing thread
    dpc,         \* position of the dispatch thread
    sig,         \* intr_thread's local sig (0 outside an iteration)
    cur,         \* intr_thread's local entry, as an index into irqs (0: none)
    running,     \* the handlers and callbacks executing now
    sdpc,        \* position of each thread's intr_shutdown call ("ret":
                 \* it returned at line 162, until the caller's next step)
    ret,         \* the call that last returned to the main thread
    owed,        \* history: notifications pending when Terminate was raised
                 \* and not taken by the loop since
    called       \* history: the ids of the entries whose handler this
                 \* iteration of the loop has called, in call order

vars == <<irqs, sigmask, tid, barrier, blocked, pending, procPending, timer,
          alive, mpc, dpc, sig, cur, running, sdpc, ret, owed, called>>

NoCall == [op |-> "none", irq |-> 0, flags |-> 0, rv |-> 0, err |-> "none"]

\* ------------------------------------------------------------------ helpers
RECURSIVE Xor(_, _)
\* the C operator ^ on non-negative integers
Xor(a, b) ==
    IF a = 0 /\ b = 0 THEN 0
    ELSE (((a % 2) + (b % 2)) % 2) + (2 * Xor(a \div 2, b \div 2))

ConflictAnd(entryFlags, flags) ==
    Xor(entryFlags, INTR_IRQ_SHARED) # 0 /\ Xor(flags, INTR_IRQ_SHARED) # 0

\* line 42: entry->flags ^ INTR_IRQ_SHARED || flags ^ INTR_IRQ_SHARED
Conflict(entryFlags, flags) ==
    Xor(entryFlags, INTR_IRQ_SHARED) # 0 \/ Xor(flags, INTR_IRQ_SHARED) # 0

\* lines 39-47: the loop over irqs ends in "return -1"
Conflicts(irq, flags) ==
    \E i \in 1..Len(irqs) :
        irqs[i].irq = irq /\ Conflict(irqs[i].flags, flags)

SigaddsetNothing(set, s) == set

\* line 62: sigaddset(&sigmask, irq)
Sigaddset(set, s) == set \cup {s}

LinkAtTail(entry, list) == list \o <<entry>>

\* lines 60-61: entry->next = irqs; irqs = entry
Link(entry, list) == <<entry>> \o list

\* real-time signals queue, standard signals coalesce
Queued(s) == s >= SIGRTMIN

Exited == dpc = "done"

\* pthread_kill(t, s) where t does not block s: no handler is installed, so
\* the default action of s ends the process (a thread that has ended takes no
\* signal)
Fatal(t, s) == ~(t = Intr /\ Exited) /\ s \notin blocked[t]

\* the number of signals in S pending on thread t, queued ones counted
Total(t, S) ==
    LET n(s) == IF s \in S THEN pending[t][s] ELSE 0
    IN  n(SIGHUP) + n(SIGUSR1) + n(SIGALRM) + n(DriverStd) + n(DriverRt)

\* the number of raised notifications not taken yet
Outstanding == Total(Main, IRQs) + Total(Intr, IRQs)

\* pthread_kill(t, s) where t blocks s: s becomes pending on t
Deliver(t, s) ==
    IF t = Intr /\ Exited THEN pending
    ELSE [pending EXCEPT ![t][s] = IF Queued(s) THEN @ + 1 ELSE 1]

\* line 172: pthread_barrier_init(&barrier, NULL, 2)
BarrierCount == 2

ArriveNoWait(b, t) == [b |-> b, pass |-> TRUE]

\* pthread_barrier_wait by thread t on a barrier with the waiters b
Arrive(b, t) ==
    IF Cardinality(b) + 1 = BarrierCount
    THEN [b |-> {}, pass |-> TRUE]
    ELSE [b |-> b \cup {t}, pass |-> FALSE]

NextMatchAny(s, from) == IF from <= Len(irqs) THEN from ELSE 0

\* lines 123-124: the first entry at index >= from whose irq is s (0: none)
NextMatch(s, from) ==
    LET M == {i \in from..Len(irqs) : irqs[i].irq = s}
    IN  IF M = {} THEN 0 ELSE CHOOSE i \in M : \A j \in M : i <= j

\* what the loop calls: line 116, line 119, and line 126 for the entry at i
TimerCallback == [irq |-> SIGALRM, id |-> 0]
SoftirqCallback == [irq |-> SIGUSR1, id |-> 0]
HandlerOf(i) == [irq |-> irqs[i].irq, id |-> irqs[i].id]

ReturnedNotAwaited(run, h) == run

\* a handler call is synchronous: h has returned when the next statement runs
Returned(run, h) == run \ {h}

\* ---------------------------------------------------------------------- Init
Init ==
    /\ irqs = <<>>
    /\ sigmask = {}
    /\ tid = NoThread
    /\ barrier = {}
    /\ blocked = [t \in {Main, Intr} |-> {}]
    /\ pending = [t \in {Main, Intr} |-> [s \in IRQs |-> 0]]
    /\ procPending = {}
    /\ timer = "unarmed"
    /\ alive = TRUE
    /\ mpc = "start"
    /\ dpc = "none"
    /\ sig = 0
    /\ cur = 0
    /\ running = {}
    /\ sdpc = [t \in Threads |-> "none"]
    /\ ret = NoCall
    /\ owed = {}
    /\ called = <<>>

\* the process has ended: its threads and its memory are gone; sd keeps
\* where an intr_shutdown call was when that happened
Die(sd) ==
    /\ alive' = FALSE
    /\ irqs' = <<>> /\ sigmask' = {} /\ tid' = NoThread /\ barrier' = {}
    /\ blocked' = [t \in {Main, Intr} |-> {}]
    /\ pending' = [t \in {Main, Intr} |-> [s \in IRQs |-> 0]]
    /\ procPending' = {} /\ timer' = "unarmed"
    /\ mpc' = "dead" /\ dpc' = "dead" /\ sig' = 0 /\ cur' = 0
    /\ running' = {} /\ sdpc' = sd
    /\ ret' = NoCall /\ owed' = {} /\ called' = <<>>

MainFree == alive /\ sdpc[Main] \notin {"join", "joined"}

\* ---------------------------------------------------------------- intr_init
IntrInit ==
    /\ alive /\ mpc = "start"
    /\ tid' = Main
    /\ barrier' = {}
    /\ sigmask' = {SIGHUP, SIGUSR1, SIGALRM}
    /\ mpc' = "ready"
    /\ UNCHANGED <<irqs, blocked, pending, procPending, timer, alive, dpc, sig,
                   cur, running, sdpc, ret, owed, called>>

\* --------------------------------------------------------- intr_request_irq
IntrRequestIrqSigFirst(irq, flags) ==
    /\ MainFree /\ mpc = "ready"
    /\ \/ /\ Conflicts(irq, flags)
          /\ ret' = [op |-> "request_irq", irq |-> irq, flags |-> flags,
                     rv |-> -1, err |-> "conflict"]
          /\ UNCHANGED <<irqs, sigmask>>
       \/ /\ ~Conflicts(irq, flags)
          /\ ret' = [op |-> "request_irq", irq |-> irq, flags |-> flags,
                     rv |-> -1, err |-> "alloc"]
          /\ sigmask' = Sigaddset(sigmask, irq)
          /\ UNCHANGED irqs
       \/ /\ ~Conflicts(irq, flags)
          /\ Len(irqs) < MaxEntries
          /\ irqs' = Link([irq |-> irq, flags |-> flags,
                            id |-> Len(irqs) + 1], irqs)
          /\ sigmask' = Sigaddset(sigmask, irq)
          /\ ret' = [op |-> "request_irq", irq |-> irq, flags |-> flags,
                     rv |-> 0, err |-> "none"]
    /\ sdpc' = [sdpc EXCEPT ![Main] = "none"]
    /\ UNCHANGED <<tid, barrier, blocked, pending, procPending, timer, alive,
                   mpc, dpc, sig, cur, running, owed, called>>

\* lines 31-66
IntrRequestIrq(irq, flags) ==
    /\ MainFree /\ mpc = "ready"
    /\ \/ /\ Conflicts(irq, flags)
          /\ ret' = [op |-> "request_irq", irq |-> irq, flags |-> flags,
                     rv |-> -1, err |-> "conflict"]
          /\ UNCHANGED <<irqs, sigmask>>
       \/ /\ ~Conflicts(irq, flags)
          /\ ret' = [op |-> "request_irq", irq |-> irq, flags |-> flags,
                     rv |-> -1, err |-> "alloc"]
          /\ UNCHANGED <<irqs, sigmask>>
       \/ /\ ~Conflicts(irq, flags)
          /\ Len(irqs) < MaxEntries
          /\ irqs' = Link([irq |-> irq, flags |-> flags,
                            id |-> Len(irqs) + 1], irqs)
          /\ sigmask' = Sigaddset(sigmask, irq)
          /\ ret' = [op |-> "request_irq", irq |-> irq, flags |-> flags,
                     rv |-> 0, err |-> "none"]
    /\ sdpc' = [sdpc EXCEPT ![Main] = "none"]
    /\ UNCHANGED <<tid, barrier, blocked, pending, procPending, timer, alive,
                   mpc, dpc, sig, cur, running, owed, called>>

\* ----------------------------------------------------------- intr_raise_irq
IntrRaiseIrqNested(irq) ==
    /\ alive /\ mpc # "start"
    /\ IF Fatal(tid, irq)
       THEN Die([t \in Threads |-> "none"])
       ELSE /\ Outstanding < MaxPending
            /\ IF running # {} /\ NextMatch(irq, 1) # 0
               THEN /\ running' = running \cup {HandlerOf(NextMatch(irq, 1))}
                    /\ UNCHANGED pending
               ELSE /\ pending' = Deliver(tid, irq)
                    /\ UNCHANGED running
            /\ UNCHANGED <<irqs, sigmask, tid, barrier, blocked, procPending,
                           timer, alive, mpc, dpc, sig, cur, sdpc, ret, owed,
                           called>>

\* line 72: pthread_kill(tid, (int)irq)
IntrRaiseIrq(irq) ==
    /\ alive /\ mpc # "start"
    /\ IF Fatal(tid, irq)
       THEN Die([t \in Threads |-> "none"])
       ELSE /\ Outstanding < MaxPending
            /\ pending' = Deliver(tid, irq)
            /\ UNCHANGED <<irqs, sigmask, tid, barrier, blocked, procPending,
                           timer, alive, mpc, dpc, sig, cur, running, sdpc,
                           ret, owed, called>>

\* ----------------------------------------------------------------- intr_run
\* lines 141-152: pthread_sigmask(SIG_BLOCK, &sigmask, NULL), then
\* pthread_create(&tid, NULL, intr_thread, NULL), taken as one step; either
\* call can fail, and the new thread inherits the creator's signal mask
RunCreate ==
    /\ MainFree /\ mpc = "ready"
    /\ \/ /\ blocked' = [t \in {Main, Intr} |-> blocked[Main] \cup sigmask]
          /\ tid' = Intr
          /\ dpc' = "start"
          /\ mpc' = "run_barrier"
          /\ ret' = NoCall
       \/ /\ mpc' = "run_failed"
          /\ ret' = [NoCall EXCEPT !.op = "run", !.rv = -1, !.err = "sigmask"]
          /\ UNCHANGED <<tid, dpc, blocked>>
       \/ /\ blocked' = [blocked EXCEPT ![Main] = @ \cup sigmask]
          /\ mpc' = "run_failed"
          /\ ret' = [NoCall EXCEPT !.op = "run", !.rv = -1, !.err = "create"]
          /\ UNCHANGED <<tid, dpc>>
    /\ sdpc' = [sdpc EXCEPT ![Main] = "none"]
    /\ UNCHANGED <<irqs, sigmask, barrier, pending, procPending, timer, alive,
                   sig, cur, running, owed, called>>

RunReturn == [NoCall EXCEPT !.op = "run"]

\* line 153: the main thread arrives at the barrier
RunBarrier ==
    /\ MainFree /\ mpc = "run_barrier"
    /\ LET a == Arrive(barrier, Main)
       IN  /\ barrier' = a.b
           /\ mpc' = IF a.pass THEN "running" ELSE "run_wait"
           /\ ret' = IF a.pass THEN RunReturn ELSE ret
    /\ UNCHANGED <<irqs, sigmask, tid, blocked, pending, procPending, timer,
                   alive, dpc, sig, cur, running, sdpc, owed, called>>

RunWakeNoWait ==
    /\ MainFree /\ mpc = "run_wait"
    /\ mpc' = "running"
    /\ ret' = RunReturn
    /\ UNCHANGED <<irqs, sigmask, tid, barrier, blocked, pending, procPending,
                   timer, alive, dpc, sig, cur, running, sdpc, owed,
                   called>>

\* lines 153-154: the barrier releases the main thread and intr_run returns 0
RunWake ==
    /\ MainFree /\ mpc = "run_wait"
    /\ Main \notin barrier
    /\ mpc' = "running"
    /\ ret' = RunReturn
    /\ UNCHANGED <<irqs, sigmask, tid, barrier, blocked, pending, procPending,
                   timer, alive, dpc, sig, cur, running, sdpc, owed,
                   called>>

\* -------------------------------------------------------------- intr_thread
\* line 99: the dispatch thread arrives at the barrier
ThreadBarrier ==
    /\ alive /\ dpc = "start"
    /\ LET a == Arrive(barrier, Intr)
       IN  /\ barrier' = a.b
           /\ dpc' = IF a.pass THEN "timer" ELSE "barrier"
    /\ UNCHANGED <<irqs, sigmask, tid, blocked, pending, procPending, timer,
                   alive, mpc, sig, cur, running, sdpc, ret, owed,
                   called>>

\* line 99: the barrier releases the dispatch thread
ThreadWake ==
    /\ alive /\ dpc = "barrier"
    /\ Intr \notin barrier
    /\ dpc' = "timer"
    /\ UNCHANGED <<irqs, sigmask, tid, barrier, blocked, pending, procPending,
                   timer, alive, mpc, sig, cur, running, sdpc, ret, owed,
                   called>>

ThreadTimerSetupUnchecked ==
    /\ alive /\ dpc = "timer"
    /\ \/ timer' = "armed" /\ dpc' = "sigwait"
       \/ timer' = "failed" /\ dpc' = "sigwait"
    /\ UNCHANGED <<irqs, sigmask, tid, barrier, blocked, pending, procPending,
                   alive, mpc, sig, cur, running, sdpc, ret, owed, called>>

\* lines 101-104 with intr_timer_setup (75-88): the timer is armed, or the
\* thread logs the failure and returns
ThreadTimerSetup ==
    /\ alive /\ dpc = "timer"
    /\ \/ timer' = "armed" /\ dpc' = "sigwait"
       \/ timer' = "failed" /\ dpc' = "done"
    /\ UNCHANGED <<irqs, sigmask, tid, barrier, blocked, pending, procPending,
                   alive, mpc, sig, cur, running, sdpc, ret, owed,
                   called>>

\* the periodic timer expires: timer_create(CLOCK_REALTIME, NULL, ..) sends
\* SIGALRM to the process, where every thread blocks it
TimerTick ==
    /\ alive /\ timer = "armed"
    /\ SIGALRM \notin procPending
    /\ procPending' = procPending \cup {SIGALRM}
    /\ UNCHANGED <<irqs, sigmask, tid, barrier, blocked, pending, timer, alive,
                   mpc, dpc, sig, cur, running, sdpc, ret, owed,
                   called>>

CaseLabelNoSoftirq(s) == IF s \in {SIGHUP, SIGALRM} THEN s ELSE 0

\* lines 111-121: the case label of switch (sig) that s selects (0: default)
CaseLabel(s) == IF s \in {SIGHUP, SIGALRM, SIGUSR1} THEN s ELSE 0

TakenKept(s) == pending

\* line 106: sigwait removes the signal it returns from the pending ones
Taken(s) == [pending EXCEPT ![Intr][s] = @ - 1]

\* the signals sigwait(&sigmask, &sig) can return now
Waitable == {s \in sigmask : pending[Intr][s] > 0 \/ s \in procPending}

\* lines 106-130: sigwait returns s and the switch starts its case
ThreadSigwait(s) ==
    /\ alive /\ dpc = "sigwait"
    /\ s \in Waitable
    /\ IF pending[Intr][s] > 0
       THEN /\ pending' = Taken(s)
            /\ UNCHANGED procPending
       ELSE /\ procPending' = procPending \ {s}
            /\ UNCHANGED pending
    /\ owed' = owed \ {s}
    /\ IF CaseLabel(s) = SIGHUP
       THEN /\ dpc' = "done" /\ sig' = 0 /\ cur' = 0 /\ running' = running
            /\ called' = <<>>
       ELSE IF CaseLabel(s) = SIGALRM
       THEN /\ dpc' = "callback" /\ sig' = s /\ cur' = 0
            /\ running' = running \cup {TimerCallback}
            /\ called' = <<>>
       ELSE IF CaseLabel(s) = SIGUSR1
       THEN /\ dpc' = "callback" /\ sig' = s /\ cur' = 0
            /\ running' = running \cup {SoftirqCallback}
            /\ called' = <<>>
       ELSE LET n == NextMatch(s, 1)
            IN  IF n = 0
                THEN /\ dpc' = "sigwait" /\ sig' = 0 /\ cur' = 0
                     /\ running' = running
                     /\ called' = <<>>
                ELSE /\ dpc' = "handler" /\ sig' = s /\ cur' = n
                     /\ running' = running \cup {HandlerOf(n)}
                     /\ called' = <<irqs[n].id>>
    /\ UNCHANGED <<irqs, sigmask, tid, barrier, blocked, timer, alive, mpc,
                   sdpc, ret>>

\* lines 116, 119: the callback returns and the loop waits again
ThreadCallbackReturn ==
    /\ alive /\ dpc = "callback"
    /\ running' = Returned(running, IF sig = SIGALRM THEN TimerCallback
                                    ELSE SoftirqCallback)
    /\ dpc' = "sigwait" /\ sig' = 0 /\ cur' = 0
    /\ sdpc' = [sdpc EXCEPT ![Intr] = "none"]
    /\ UNCHANGED <<irqs, sigmask, tid, barrier, blocked, pending, procPending,
                   timer, alive, mpc, ret, owed, called>>

\* lines 123-128: entry->handler returns; the walk calls the next matching
\* entry's handler, or ends and the loop waits again
ThreadHandlerReturn ==
    /\ alive /\ dpc = "handler"
    /\ LET n == NextMatch(sig, cur + 1)
           r == Returned(running, HandlerOf(cur))
       IN  IF n = 0
           THEN /\ dpc' = "sigwait" /\ sig' = 0 /\ cur' = 0 /\ running' = r
                /\ called' = <<>>
           ELSE /\ dpc' = "handler" /\ sig' = sig /\ cur' = n
                /\ running' = r \cup {HandlerOf(n)}
                /\ called' = Append(called, irqs[n].id)
    /\ sdpc' = [sdpc EXCEPT ![Intr] = "none"]
    /\ UNCHANGED <<irqs, sigmask, tid, barrier, blocked, pending, procPending,
                   timer, alive, mpc, ret, owed>>

\* ------------------------------------------------------------ intr_shutdown
\* where thread t can call intr_shutdown from
CanCall(t) ==
    IF t = Main THEN mpc \in {"ready", "running"}
    ELSE IF t = Intr THEN running # {}
    ELSE mpc # "start"

ShutdownCallUnchecked(t) ==
    /\ alive /\ CanCall(t) /\ sdpc[t] = "none"
    /\ \A u \in Threads : sdpc[u] \in {"none", "ret"}
    /\ IF Fatal(tid, SIGHUP)
       THEN Die([u \in Threads |-> IF u = t THEN "kill" ELSE "none"])
       ELSE /\ pending' = Deliver(tid, SIGHUP)
            /\ owed' = IF tid = Intr /\ ~Exited
                       THEN {s \in sigmask \ {SIGHUP} : pending[Intr][s] > 0}
                       ELSE owed
            /\ sdpc' = [sdpc EXCEPT ![t] = "join"]
            /\ UNCHANGED <<irqs, sigmask, tid, barrier, blocked, procPending,
                           timer, alive, mpc, dpc, sig, cur, running, ret,
                           called>>

\* lines 160-164: pthread_equal(tid, pthread_self()) and the return of a
\* thread that finds itself in tid; any other caller goes on to
\* pthread_kill(tid, SIGHUP)
ShutdownCall(t) ==
    /\ alive /\ CanCall(t) /\ sdpc[t] = "none"
    /\ \A u \in Threads : sdpc[u] \in {"none", "ret"}
    /\ IF tid = t
       THEN /\ sdpc' = [sdpc EXCEPT ![t] = "ret"]
            /\ UNCHANGED <<irqs, sigmask, tid, barrier, blocked, pending,
                           procPending, timer, alive, mpc, dpc, sig, cur,
                           running, ret, owed, called>>
       ELSE IF Fatal(tid, SIGHUP)
       THEN Die([u \in Threads |-> IF u = t THEN "kill" ELSE "none"])
       ELSE /\ pending' = Deliver(tid, SIGHUP)
            /\ owed' = IF tid = Intr /\ ~Exited
                       THEN {s \in sigmask \ {SIGHUP} : pending[Intr][s] > 0}
                       ELSE owed
            /\ sdpc' = [sdpc EXCEPT ![t] = "join"]
            /\ UNCHANGED <<irqs, sigmask, tid, barrier, blocked, procPending,
                           timer, alive, mpc, dpc, sig, cur, running, ret,
                           called>>

\* line 165: pthread_join(tid, NULL) returns once the thread has ended
ShutdownJoin(t) ==
    /\ alive /\ sdpc[t] = "join"
    /\ tid = Intr /\ Exited
    /\ sdpc' = [sdpc EXCEPT ![t] = "joined"]
    /\ UNCHANGED <<irqs, sigmask, tid, barrier, blocked, pending, procPending,
                   timer, alive, mpc, dpc, sig, cur, running, ret, owed,
                   called>>

\* --------------------------------------------------------------------- Next
Next ==
    \/ IntrInit
    \/ \E r \in Requests : IntrRequestIrq(r[1], r[2])
    \/ \E irq \in IRQs : IntrRaiseIrq(irq)
    \/ RunCreate
    \/ RunBarrier
    \/ RunWake
    \/ ThreadBarrier
    \/ ThreadWake
    \/ ThreadTimerSetup
    \/ TimerTick
    \/ \E s \in IRQs : ThreadSigwait(s)
    \/ ThreadCallbackReturn
    \/ ThreadHandlerReturn
    \/ \E t \in Threads : ShutdownCall(t)
    \/ \E t \in Threads : ShutdownJoin(t)

Spec == Init /\ [][Next]_vars

\* ---------------------------------------------------------------- in service
\* The system as its callers are meant to use it once intr_run has been
\* called: nobody calls intr_shutdown, and intr_raise_irq is called for the
\* irqs of the notification set other than SIGHUP, after intr_run has set tid.
ServiceRaise(irq) ==
    /\ tid = Intr /\ irq \in sigmask \ {SIGHUP}
    /\ IntrRaiseIrq(irq)

ServiceNext ==
    \/ IntrInit
    \/ \E r \in Requests : IntrRequestIrq(r[1], r[2])
    \/ \E irq \in IRQs : ServiceRaise(irq)
    \/ RunCreate
    \/ RunBarrier
    \/ RunWake
    \/ ThreadBarrier
    \/ ThreadWake
    \/ ThreadTimerSetup
    \/ TimerTick
    \/ \E s \in IRQs : ThreadSigwait(s)
    \/ ThreadCallbackReturn
    \/ ThreadHandlerReturn

\* The handlers and callbacks the loop calls return, and sigwait, called
\* again and again, does not pass over a pending signal for ever.
ServiceFairness ==
    /\ WF_vars(ThreadCallbackReturn) /\ WF_vars(ThreadHandlerReturn)
    /\ \A s \in IRQs : SF_vars(ThreadSigwait(s))

ServiceSpec == Init /\ [][ServiceNext]_vars /\ ServiceFairness

\* ------------------------------------------------------------------- claims
\* intr_run has returned 0 to the main thread
RunSucceeded == ret = RunReturn

\* C1, as the claim states it: whenever intr_run has returned success, the
\* dispatch thread has finished arming the periodic timer.
C1_RunReturnsAfterTimerArmed == RunSucceeded => timer = "armed"

\* C1, amended: whenever intr_run has returned success, the dispatch thread
\* has been created and has arrived at the barrier (line 99); arming the
\* timer comes after the barrier and may not have happened yet.
C1_RunReturnsAfterRendezvous == RunSucceeded => dpc \notin {"none", "start"}

\* intr_run has returned while the dispatch thread is still before line 101
C1_Witness == RunSucceeded /\ dpc = "timer" /\ timer = "unarmed"

\* C2: no event is lost during shutdown.  Every notification pending on the
\* dispatch thread when intr_shutdown raised Terminate has been taken by the
\* loop, and so had its handler or callback invoked, by the time the
\* loop has taken Terminate and the thread has terminated.
C2_NoEventLostAtShutdown == dpc = "done" /\ timer = "armed" => owed = {}

\* C3: no registered handler, time-tick callback or deferred-work callback
\* runs before both the main thread (inside intr_run) and the dispatch
\* thread have reached the barrier.
C3_NoEventBeforeReady ==
    running # {} =>
        /\ mpc \in {"run_wait", "running"}
        /\ dpc \notin {"none", "start"}

\* a callback runs while the main thread, released by the barrier, has not
\* yet returned from intr_run
C3_Witness == running # {} /\ mpc = "run_wait" /\ barrier = {}

\* irq is neither registered nor reserved
Stray(irq) ==
    irq \notin Reserved /\ \A i \in 1..Len(irqs) : irqs[i].irq # irq

\* C4: every raise made after intr_init, those made before intr_run
\* included, makes its notification pending on the dispatch thread: it
\* reaches neither the initializing thread nor the process as a whole, and
\* leaves the process running.
C4_RaiseTargetsDispatchThread ==
    [][\A irq \in IRQs :
          ~Stray(irq) /\ IntrRaiseIrq(irq) =>
              /\ tid = Intr
              /\ alive'
              /\ pending'[Main] = pending[Main]]_vars

\* the notifications the dispatch thread can still take
Untaken == Total(Intr, IRQs) + Cardinality(procPending)

\* C5: handlers never run concurrently.  At most one of the registered
\* handlers, the time-tick callback and the deferred-work callback executes
\* at any time; the loop waits again only when the handlers of the current
\* notification have returned; one iteration takes at most one
\* notification, and none is taken while a handler executes.
C5_HandlersSequential ==
    [][/\ Cardinality(running') <= 1
       /\ dpc' = "sigwait" => running' = {}
       /\ alive' /\ ~(dpc = "sigwait" /\ running = {}) =>
             /\ \A s \in IRQs : pending'[Intr][s] >= pending[Intr][s]
             /\ procPending \subseteq procPending'
       /\ alive' /\ dpc = "sigwait" => Untaken' >= Untaken - 1]_vars

\* the second handler of a shared identifier executes, alone, while another
\* notification is pending
C5_Witness ==
    /\ dpc = "handler" /\ cur = 2 /\ irqs[1].irq = irqs[2].irq
    /\ running = {HandlerOf(2)} /\ Waitable # {}

\* C7: no registry entry ever carries a reserved identifier (a registration
\* call for Terminate, TimerTick or SoftIrq never succeeds).
C7_ReservedNeverRegistered ==
    \A i \in 1..Len(irqs) : irqs[i].irq \notin Reserved

\* C8: intr_shutdown called after a successful intr_run makes the dispatch
\* thread exit and then returns; so whenever such a call returns, whoever
\* the caller is, the dispatch thread has terminated.
C8_ShutdownReturnsAfterExit ==
    [][\A t \in Threads :
          /\ RunSucceeded
          /\ sdpc'[t] # sdpc[t]
          /\ sdpc'[t] \in {"ret", "joined"}
          => Exited']_vars

\* C9: intr_shutdown called by any thread while the dispatch thread was never
\* started (after intr_init, before intr_run) returns without raising a
\* notification and without joining, and leaves the registry, the
\* notification set and the thread handle as they were.
C9_ShutdownBeforeRunIsNoop ==
    [][\A t \in Threads :
          mpc = "ready" /\ ShutdownCall(t) =>
              /\ alive'
              /\ sdpc'[t] = "ret"
              /\ UNCHANGED <<irqs, sigmask, tid, pending>>]_vars

\* C10: a raise of an irq that is neither registered nor reserved, made while
\* the dispatch loop runs, leaves the process and the dispatch thread alive
\* and the loop in service.
C10_StrayRaiseHarmless ==
    [][\A irq \in IRQs :
          /\ Stray(irq)
          /\ dpc \in {"sigwait", "callback", "handler"}
          /\ IntrRaiseIrq(irq)
          => alive' /\ dpc' = dpc]_vars

\* flags carries the SHARED bit
HasShared(flags) == (flags \div INTR_IRQ_SHARED) % 2 = 1

\* the registry holds an entry for irq, and that entry or the request lacks
\* SHARED
SharingViolated(irq, flags) ==
    \E i \in 1..Len(irqs) :
        irqs[i].irq = irq /\ (~HasShared(irqs[i].flags) \/ ~HasShared(flags))

\* C6: a registration call fails with the conflict error exactly when the
\* registry already holds an entry with the same irq and that entry or the
\* request lacks SHARED; otherwise it fails only for want of memory, and
\* when it succeeds the new entry is the head of the registry.
C6_ConflictExactly ==
    [][ret'.op = "request_irq" /\ (ret' # ret \/ irqs' # irqs) =>
          /\ ret'.err = "conflict" <=> SharingViolated(ret'.irq, ret'.flags)
          /\ ret'.err \in {"conflict", "alloc"} <=> ret'.rv = -1
          /\ ret'.rv = -1 => irqs' = irqs
          /\ ret'.rv = 0 =>
                /\ Len(irqs') = Len(irqs) + 1
                /\ irqs'[1].irq = ret'.irq /\ irqs'[1].flags = ret'.flags
                /\ \A i \in 1..Len(irqs) : irqs'[i + 1] = irqs[i]]_vars

\* two SHARED entries share an irq, and a later request for that irq without
\* SHARED has failed with the conflict error
C6_Witness ==
    /\ Len(irqs) = 2 /\ irqs[1].irq = irqs[2].irq
    /\ ret.op = "request_irq" /\ ret.err = "conflict"
    /\ ret.irq = irqs[1].irq /\ ~HasShared(ret.flags)

\* the ids of the entries registered under irq; an id is the entry's place
\* in the order of registration
IdsOf(irq) == {irqs[i].id : i \in {j \in 1..Len(irqs) : irqs[j].irq = irq}}

RECURSIVE Descending(_)
\* the numbers of S, the greatest first
Descending(S) ==
    IF S = {} THEN <<>>
    ELSE LET m == CHOOSE x \in S : \A y \in S : y <= x
         IN  <<m>> \o Descending(S \ {m})

\* C11: one dispatched notification of a driver identifier calls the handler
\* of every entry registered under it exactly once, the most recently
\* registered first: while the walk runs, the handlers called so far are the
\* first ones of that order and the last of them is the one executing; when
\* the walk ends, all of them have been called.
C11_SharedMostRecentFirst ==
    [][/\ dpc' = "handler" =>
             /\ called' # <<>> /\ Len(called') <= Len(Descending(IdsOf(sig')))
             /\ called' = SubSeq(Descending(IdsOf(sig')), 1, Len(called'))
             /\ running' = {[irq |-> sig', id |-> called'[Len(called')]]}
       /\ dpc = "handler" /\ dpc' = "sigwait" =>
             called = Descending(IdsOf(sig))]_vars

\* the walk for an identifier with two SHARED entries has reached the entry
\* registered first, after calling the one registered second
C11_Witness ==
    /\ dpc = "handler" /\ called = <<2, 1>>
    /\ \A i \in 1..Len(irqs) :
          irqs[i].irq = sig /\ irqs[i].flags = INTR_IRQ_SHARED

\* irq is a driver identifier with an entry in the registry
Registered(irq) == irq \notin Reserved /\ IdsOf(irq) # {}

NoShutdown == \A t \in Threads : sdpc[t] = "none"

\* C13: after intr_run has returned success and while no intr_shutdown is
\* called, the TimerTick notification keeps firing, so that the time-tick
\* callback is invoked again and again: the periodic timer is armed, or is
\* about to be, and never has failed to arm.
C13_TimerKeepsFiring == RunSucceeded /\ NoShutdown => timer # "failed"

\* the dispatch loop runs: the thread waits in sigwait or executes what the
\* signal it took calls for
InService == alive /\ dpc \in {"sigwait", "callback", "handler"}

Took(s) ==
    /\ alive' /\ dpc = "sigwait"
    /\ \/ pending'[Intr][s] < pending[Intr][s]
       \/ s \in procPending /\ s \notin procPending'

\* C15: the loop classifies the reserved identifiers.  Taking Terminate calls
\* nothing and ends the thread, and nothing is called ever after; taking
\* TimerTick calls the time-tick callback and nothing else; taking SoftIrq
\* calls the deferred-work callback and nothing else; the loop waits again
\* when the callback returns.  No handler of a registry entry is called for
\* any of the three, whether or not an entry carries that identifier.
C15_ReservedClassified ==
    [][/\ Took(SIGHUP) =>
             dpc' = "done" /\ running' = {} /\ called' = <<>>
       /\ Took(SIGALRM) =>
             /\ dpc' = "callback" /\ called' = <<>>
             /\ running' = {[irq |-> SIGALRM, id |-> 0]}
       /\ Took(SIGUSR1) =>
             /\ dpc' = "callback" /\ called' = <<>>
             /\ running' = {[irq |-> SIGUSR1, id |-> 0]}
       /\ dpc = "callback" /\ alive' =>
             \/ dpc' = "callback" /\ running' = running /\ called' = <<>>
             \/ dpc' = "sigwait" /\ running' = {} /\ called' = <<>>
       /\ Exited => dpc' \in {"done", "dead"} /\ running' = {}
       /\ \A h \in running' : h.id # 0 => h.irq \notin Reserved]_vars

\* the registry holds an entry for SoftIrq, and the loop, having taken a
\* SoftIrq notification, executes the deferred-work callback alone
C15_Witness ==
    /\ \E i \in 1..Len(irqs) : irqs[i].irq = SIGUSR1
    /\ dpc = "callback" /\ sig = SIGUSR1 /\ running = {SoftirqCallback}
    /\ called = <<>>

\* C16: when arming the timer fails, the dispatch thread exits without having
\* entered the loop: no handler or callback was called before and none is
\* called after, what is raised stays untaken for ever, the process keeps
\* running, and intr_run returns success all the same (the barrier has
\* released it already).
C16_TimerFailureSilent ==
    [][/\ dpc' \in {"none", "start", "barrier", "timer"} => running' = {}
       /\ timer' = "failed" =>
             /\ dpc' = "done" /\ running' = {} /\ called' = <<>>
             /\ mpc' \in {"run_wait", "running"}
             /\ mpc' = "run_wait" => Main \notin barrier'
             /\ mpc' = "running" => RunSucceeded'
       /\ timer = "failed" =>
             /\ alive' /\ timer' = "failed"
             /\ pending'[Intr] = pending[Intr] /\ procPending' = procPending
             /\ mpc' # mpc => RunSucceeded']_vars

\* arming has failed after intr_run returned success, and a SoftIrq raised
\* in between stays pending on the thread that has exited
C16_Witness ==
    /\ timer = "failed" /\ dpc = "done" /\ RunSucceeded
    /\ pending[Intr][SIGUSR1] = 1

\* C17: a raise of an identifier of the notification set made while a
\* handler or callback executes on the dispatch thread (from inside it, for
\* one) calls nothing: the handler executing and the walk it belongs to are
\* left as they are and the notification becomes pending; what is pending
\* stays pending as long as a handler or callback executes, and the handlers
\* of another notification start only from sigwait, in a later iteration,
\* when those of the current one have returned.
C17_ReentrantRaiseNotNested ==
    [][/\ \A irq \in IRQs :
             running # {} /\ irq \in sigmask /\ IntrRaiseIrq(irq) =>
                /\ alive' /\ running' = running /\ called' = called
                /\ dpc' = dpc /\ sig' = sig /\ cur' = cur
                /\ pending'[Intr][irq] >= 1
                /\ pending'[Intr][irq] >= pending[Intr][irq]
       /\ running # {} /\ alive' =>
             \A s \in IRQs : pending'[Intr][s] >= pending[Intr][s]
       /\ running # {} /\ alive' => sig' \in {sig, 0}
       /\ running' # {} /\ running' # running =>
             /\ dpc \in {"sigwait", "handler"}
             /\ dpc = "sigwait" => running = {}
             /\ dpc = "handler" => running' = {HandlerOf(cur')} /\ sig' = sig]_vars

\* the handler of the real-time driver identifier executes, and a raise of
\* that same identifier, made meanwhile, is pending
C17_Witness ==
    /\ dpc = "handler" /\ sig = DriverRt /\ running = {HandlerOf(cur)}
    /\ pending[Intr][DriverRt] = 1

\* C18: in every state after intr_init, the notification set is exactly the
\* irqs of the registry's entries together with Terminate, TimerTick and
\* SoftIrq.
C18_NotificationSetExact ==
    alive /\ mpc # "start" =>
        sigmask = {irqs[i].irq : i \in 1..Len(irqs)} \cup Reserved

\* both driver identifiers are registered and intr_run has returned
C18_Witness ==
    /\ RunSucceeded
    /\ {irqs[i].irq : i \in 1..Len(irqs)} = DriverIrqs
    /\ sigmask = IRQs

\* C19: a registration call that fails, with the conflict error or for want
\* of memory, changes nothing: the registry holds the same entries in the
\* same order, the notification set is the same, and so are the thread
\* handle, the barrier and every thread's signals.
C19_FailedRegistrationNoEffect ==
    [][/\ ret'.op = "request_irq" /\ ret'.rv = -1
       /\ ret' # ret \/ irqs' # irqs \/ sigmask' # sigmask
       => UNCHANGED <<irqs, sigmask, tid, barrier, blocked, pending,
                      procPending, timer, mpc, dpc, running>>]_vars

\* with one entry in the registry, a call for another identifier has failed
\* for want of memory, and the identifier is not in the notification set
C19_Witness ==
    /\ Len(irqs) = 1 /\ ret.op = "request_irq" /\ ret.err = "alloc"
    /\ ret.irq # irqs[1].irq /\ ret.irq \notin sigmask

====
